---- MODULE Spec2Model ----
(***************************************************************************)
(* Model of the veterinary rest-room simulator of src/q3.py                *)
(* (VeterinaryRoomSimulator).  simulate() is modelled statement group by   *)
(* statement group: pc is the position inside the while loop of lines      *)
(* 67-170, and every candidate of the admission loop (lines 134-147) is a  *)
(* step of its own, so that the room can be observed in the middle of an   *)
(* admission pass.                                                         *)
(*                                                                         *)
(* Animal objects are shared by reference between the lists of simulate(); *)
(* the lists therefore hold animal ids, the immutable fields live in       *)
(* self.animals and the mutable fields (remaining_rest, entry_time,        *)
(* exit_time) are functions of the id.                                     *)
(***************************************************************************)
EXTENDS Integers, Sequences, FiniteSets, TLC

(* ---------------------------- bounds ----------------------------------- *)
MaxAnimals == 2      \* animals of an enumerated workload
MaxArrival == 1      \* arrival_time of an enumerated animal: 0..MaxArrival
MaxRest    == 2      \* rest_duration of an enumerated animal: 1..MaxRest
MaxLatency == 1      \* sign_change_latency of an enumerated config: 0 or this
MaxProcesses == 2    \* processes of an enumerated scheduling workload
MaxProcArrival == 2  \* arrival_time of an enumerated process: 0..this
MaxBurst == 3        \* burst_time of an enumerated process: 1..this
MaxQuantum == 2      \* quantum of an enumerated round-robin run: 1..this
MaxSwitchCost == 1   \* context_switch_cost of an enumerated config: 0..this

(* ------------------------ program constants ---------------------------- *)
max_iterations == 10000

EMPTY == "EMPTY"
Species == {"DOG", "CAT"}
Policies == {"FIFO", "PRIORITY"}

(* Animal ids are strings; Python compares them lexicographically.  IdOrder *)
(* lists every id used below in that order, IdRank is the position.        *)
IdOrder ==
    << "A1", "A2", "A3", "A4",
       "C01", "C02", "C03", "C04", "C05", "C06", "C07", "C08", "C09", "C10",
       "C11", "C12", "C13", "C14", "C1",
       "D01", "D02", "D03", "D04", "D05", "D06", "D07", "D08", "D09", "D10",
       "D11", "D12", "D13", "D14", "D15", "D16", "D17", "D1", "D2" >>

IdRank(id) == CHOOSE i \in 1..Len(IdOrder) : IdOrder[i] = id

(* dataclass Animal: the fields given to the constructor *)
Animal(id, species, arrival_time, rest_duration) ==
    [id |-> id, species |-> species,
     arrival_time |-> arrival_time, rest_duration |-> rest_duration]

VARIABLES
    self,                  \* the simulator's fields set by __init__
    remaining_rest,        \* Animal.remaining_rest, by id
    entry_time,            \* Animal.entry_time, by id (-1: unset)
    exit_time,             \* Animal.exit_time, by id (-1: unset)
    pc,                    \* position in simulate()
    current_time,
    current_sign,
    animals_in_room,       \* list of ids
    waiting_queue,         \* deque of ids
    completed_animals,     \* list of ids
    total_wait_time,
    total_turnaround_time,
    sign_changes,
    timeline,
    animals,               \* the sorted list of simulate(), as animal records
    animal_idx,            \* 0-based, as in the code
    iterations,
    candidates,            \* the part of candidates[:] not yet visited
    result,                \* the dict returned by simulate()
    room_filled,           \* observer: number of room empty -> non-empty events
    room_emptied,          \* observer: number of room non-empty -> empty events
    first_result,          \* the result of the simulator built from the same
                           \* config before this one, if there was one
    driver                 \* "skip": the clock of lines 157-170; "step": the
                           \* reference clock that advances by 1 every tick

\* the state of the simulator of src/q3.py
roomVars == << self, remaining_rest, entry_time, exit_time, pc, current_time,
               current_sign, animals_in_room, waiting_queue, completed_animals,
               total_wait_time, total_turnaround_time, sign_changes, timeline,
               animals, animal_idx, iterations, candidates, result,
               room_filled, room_emptied, first_result, driver >>

(* src/programadores.py: the globals, the lock and wait queue of            *)
(* resource_condition, and the position of every thread                     *)
VARIABLES
    compiler_in_use,
    db_users,
    programmers_status,    \* by programmer index
    prog_pc,               \* position of each programmer_life thread
    lock_holder,           \* thread that holds resource_condition's lock
    waiters,               \* threads inside wait() that were not notified
    display_pc,            \* position of display_status (main thread)
    displayed              \* what display_status last read under the lock

progVars == << compiler_in_use, db_users, programmers_status, prog_pc,
               lock_holder, waiters, display_pc, displayed >>

(* src/escalonamento.py: the SchedulingSimulator and the locals of          *)
(* simulate_fcfs, simulate_sjf and simulate_rr                              *)
VARIABLES
    scheduler,             \* the simulator's fields, and the method called
    sched_pc,              \* position in the method
    processes,             \* the local list of Process records
    sched_time,            \* current_time of the method
    total_wait,
    total_turnaround,
    total_response,
    context_switches,
    sched_timeline,        \* timeline of the method
    completed,             \* a set of pids (SJF), a counter (RR)
    proc,                  \* pid of the process chosen by simulate_sjf
    sched_queue,           \* queue of simulate_rr: list of pids
    sched_idx,             \* idx of simulate_fcfs and simulate_rr
    last_pid,
    remaining_time,        \* Process.remaining_time of the copies, by pid
    first_response,        \* Process.first_response of the copies, by pid
    sched_result

schedVars == << scheduler, sched_pc, processes, sched_time, total_wait,
                total_turnaround, total_response, context_switches,
                sched_timeline, completed, proc, sched_queue, sched_idx,
                last_pid,
                remaining_time, first_response, sched_result >>

\* the state of the programs a step of simulate() does not touch
otherVars == << progVars, schedVars >>

vars == << roomVars, otherVars >>

(* ------------------------------ helpers -------------------------------- *)
Range(s) == { s[i] : i \in 1..Len(s) }

SeqRemove(s, x) == \* list.remove(x) / deque.remove(x): the first occurrence
    LET i == CHOOSE k \in 1..Len(s) : s[k] = x /\ \A j \in 1..(k-1) : s[j] # x
    IN  SubSeq(s, 1, i-1) \o SubSeq(s, i+1, Len(s))

\* the Animal record of an id
AnimalOf(id) ==
    LET i == CHOOSE k \in 1..Len(self.animals) : self.animals[k].id = id
    IN  self.animals[i]

Ids == { self.animals[i].id : i \in 1..Len(self.animals) }

\* Python tuple comparison of two keys of the same length
RECURSIVE TupleLess(_, _)
TupleLess(k1, k2) ==
    IF Len(k1) = 0 THEN FALSE
    ELSE IF Head(k1) # Head(k2) THEN Head(k1) < Head(k2)
    ELSE TupleLess(Tail(k1), Tail(k2))

\* sorted(seq, key=Key): stable insertion of each element after the elements
\* whose key is not greater
RECURSIVE InsertByKey(_, _, _)
InsertByKey(sorted, x, key) ==
    IF Len(sorted) = 0 THEN << x >>
    ELSE IF TupleLess(key[x], key[Head(sorted)]) THEN << x >> \o sorted
    ELSE << Head(sorted) >> \o InsertByKey(Tail(sorted), x, key)

RECURSIVE SortedByKey(_, _)
SortedByKey(seq, key) ==
    IF Len(seq) = 0 THEN << >>
    ELSE InsertByKey(SortedByKey(SubSeq(seq, 1, Len(seq) - 1), key),
                     seq[Len(seq)], key)

(* --------------------------- configurations ---------------------------- *)
BoundIds == << "A1", "A2", "A3", "A4" >>

\* every workload of at most MaxAnimals animals; the config lists the animals
\* by descending id, so that the sort of simulate() has work to do
BoundedWorkloads ==
    UNION { { [i \in 1..n |-> Animal(BoundIds[n + 1 - i], f[i].species,
                                     f[i].arrival_time, f[i].rest_duration)] :
              f \in [1..n -> [species : Species,
                              arrival_time : 0..MaxArrival,
                              rest_duration : 1..MaxRest]] } :
            n \in 0..MaxAnimals }

Config(room_count, queue_policy, sign_change_latency, initial_sign, workload) ==
    [room_count |-> room_count, queue_policy |-> queue_policy,
     sign_change_latency |-> sign_change_latency,
     initial_sign |-> initial_sign, animals |-> workload]

\* room_count is 1 as in main(); simulate() never reads it
BoundedConfigs ==
    { Config(1, qp, lat, sg, w) :
        qp \in Policies, lat \in {0, MaxLatency},
        sg \in {EMPTY} \cup Species, w \in BoundedWorkloads }

\* the workload of main()
MainWorkload ==
    << Animal("D01", "DOG", 0, 6),
       Animal("D02", "DOG", 1, 5),
       Animal("D03", "DOG", 2, 7),
       Animal("D04", "DOG", 3, 4),
       Animal("C01", "CAT", 5, 6),
       Animal("C02", "CAT", 8, 3),
       Animal("C03", "CAT", 8, 5),
       Animal("D05", "DOG", 10, 8),
       Animal("D06", "DOG", 11, 4),
       Animal("D07", "DOG", 15, 6),
       Animal("D08", "DOG", 15, 3),
       Animal("C04", "CAT", 18, 4),
       Animal("C05", "CAT", 20, 7),
       Animal("C06", "CAT", 20, 2),
       Animal("D09", "DOG", 22, 5),
       Animal("C07", "CAT", 25, 5),
       Animal("C08", "CAT", 25, 6),
       Animal("C09", "CAT", 25, 4),
       Animal("D10", "DOG", 26, 9),
       Animal("D11", "DOG", 30, 5),
       Animal("D12", "DOG", 31, 4),
       Animal("D13", "DOG", 32, 3),
       Animal("C10", "CAT", 35, 8),
       Animal("C11", "CAT", 40, 3),
       Animal("C12", "CAT", 40, 5),
       Animal("D14", "DOG", 41, 7),
       Animal("D15", "DOG", 55, 4),
       Animal("D16", "DOG", 55, 6),
       Animal("C13", "CAT", 60, 7),
       Animal("C14", "CAT", 60, 3),
       Animal("D17", "DOG", 68, 5) >>

MainConfig == Config(1, "FIFO", 0, EMPTY, MainWorkload)

\* the scenarios of the specification
ScenarioTwoSpecies ==
    Config(1, "FIFO", 0, EMPTY,
           << Animal("D1", "DOG", 0, 5), Animal("C1", "CAT", 1, 3) >>)

ScenarioLatency ==
    Config(1, "FIFO", 2, EMPTY, << Animal("D1", "DOG", 0, 3) >>)

ScenarioPriority ==
    Config(1, "PRIORITY", 0, EMPTY,
           << Animal("D1", "DOG", 0, 4), Animal("C1", "CAT", 1, 2),
              Animal("D2", "DOG", 2, 2) >>)

\* a room_count of 2 and three animals of one species
ScenarioThreeDogs ==
    Config(2, "FIFO", 1, "CAT",
           << Animal("D1", "DOG", 0, 2), Animal("D2", "DOG", 0, 3),
              Animal("D01", "DOG", 1, 1) >>)

\* the animals of the priority scenario under FIFO
ScenarioOvertake ==
    Config(1, "FIFO", 0, EMPTY,
           << Animal("D1", "DOG", 0, 4), Animal("C1", "CAT", 1, 2),
              Animal("D2", "DOG", 2, 2) >>)

ScenarioConfigs ==
    { MainConfig, ScenarioTwoSpecies, ScenarioLatency, ScenarioPriority,
      ScenarioThreeDogs, ScenarioOvertake }

Configs == BoundedConfigs \cup ScenarioConfigs

(* ------------------------------- Init ---------------------------------- *)
\* __init__ (lines 20-37) and Animal.__post_init__ (lines 16-17)
\* src/programadores.py lines 7-8
NUM_PROGRAMMERS == 5
MAX_DB_USERS == 2

Programmers == 0..(NUM_PROGRAMMERS - 1)

\* thread identities for the lock: no thread, and the main thread, which runs
\* display_status
NoThread == -1
MainThread == NUM_PROGRAMMERS

\* lines 11-20 and the threads before they are started (lines 93-99)
ProgInitFields ==
    /\ compiler_in_use = FALSE
    /\ db_users = 0
    /\ programmers_status = [p \in Programmers |-> << "Iniciando..." >>]
    /\ prog_pc = [p \in Programmers |-> "think"]
    /\ lock_holder = NoThread
    /\ waiters = {}
    /\ display_pc = "enter"
    /\ displayed = [compiler_in_use |-> FALSE, db_users |-> 0]

\* the simulator after __init__, before simulate() is called
RoomInitFields ==
    /\ remaining_rest = [id \in Ids |-> AnimalOf(id).rest_duration]
    /\ entry_time = [id \in Ids |-> -1]
    /\ exit_time = [id \in Ids |-> -1]
    /\ pc = "new"
    /\ current_time = 0
    /\ current_sign = EMPTY
    /\ animals_in_room = << >>
    /\ waiting_queue = << >>
    /\ completed_animals = << >>
    /\ total_wait_time = 0
    /\ total_turnaround_time = 0
    /\ sign_changes = 0
    /\ timeline = << >>
    /\ animals = << >>
    /\ animal_idx = 0
    /\ iterations = 0
    /\ candidates = << >>
    /\ result = [returned |-> FALSE]
    /\ room_filled = 0
    /\ room_emptied = 0
    /\ first_result = [returned |-> FALSE]
    /\ driver = "skip"

\* dataclass Process: the fields given to the constructor
Process(pid, arrival_time, burst_time) ==
    [pid |-> pid, arrival_time |-> arrival_time, burst_time |-> burst_time]

\* the config of a SchedulingSimulator (lines 17-27) and the method that
\* run_all_simulations calls on it (lines 232-240)
SchedConfig(context_switch_cost, algorithm, quantum, workload) ==
    [context_switch_cost |-> context_switch_cost, algorithm |-> algorithm,
     quantum |-> quantum, processes |-> workload]

Pids == { scheduler.processes[i].pid : i \in 1..Len(scheduler.processes) }

\* the simulator after __init__, before a method is called
SchedInitFields ==
    /\ sched_pc = "new"
    /\ processes = << >>
    /\ sched_time = 0
    /\ total_wait = 0
    /\ total_turnaround = 0
    /\ total_response = 0
    /\ context_switches = 0
    /\ sched_timeline = << >>
    /\ completed = 0
    /\ proc = "None"
    /\ sched_queue = << >>
    /\ sched_idx = 0
    /\ last_pid = "None"
    /\ remaining_time = [pid \in Pids |-> 0]
    /\ first_response = [pid \in Pids |-> -1]
    /\ sched_result = [returned |-> FALSE]

\* no scheduling simulator next to the room
NoProcesses == SchedConfig(1, "FCFS", "-", << >>)

InitFields ==
    /\ RoomInitFields
    /\ ProgInitFields
    /\ scheduler = NoProcesses
    /\ SchedInitFields

Init == self \in Configs /\ InitFields

(* ------------------------ pieces of simulate() ------------------------- *)
\* line 62: key=lambda a: (a.arrival_time, a.id)
ArrivalKey(seq) ==
    [a \in Range(seq) |-> << a.arrival_time, IdRank(a.id) >>]

\* mutant: the sort key is the id alone
SortedAnimalsById(seq) ==
    SortedByKey(seq, [a \in Range(seq) |-> << IdRank(a.id) >>])

\* line 62: animals = sorted(self.animals, key=...)
SortedAnimals(seq) == SortedByKey(seq, ArrivalKey(seq))

\* mutant: the arrival test looks one tick ahead
HasArrivedEarly(animal, now) == animal.arrival_time <= now + 1

\* line 75: the test of the arrival loop on one animal
HasArrived(animal, now) == animal.arrival_time <= now

\* lines 75-78: the value of animal_idx after the arrival loop
RECURSIVE ArrivalIdx(_, _, _)
ArrivalIdx(sorted, idx, now) ==
    IF idx < Len(sorted) /\ HasArrived(sorted[idx + 1], now)
    THEN ArrivalIdx(sorted, idx + 1, now)
    ELSE idx

\* mutant: an occupant leaves with one tick of rest left
RestFinishedEarly(rest) == rest <= 1

\* line 86: an occupant has finished its rest
RestFinished(rest) == rest <= 0

\* mutant: the loop over the occupants is missing
CanEnterRoomAlways(animal, sign, room) == TRUE

\* lines 39-48
CanEnterRoom(animal, sign, room) ==
    IF Len(room) = 0 THEN TRUE
    ELSE \A i \in 1..Len(room) : animal.species = AnimalOf(room[i]).species

\* mutant: the animals that match the sign are put last
PriorityKeyInverted(queue, sign) ==
    [id \in Range(queue) |->
        << IF AnimalOf(id).species = sign THEN 1 ELSE 0,
           AnimalOf(id).arrival_time, IdRank(id) >>]

\* lines 127-131: key of the priority policy
PriorityKey(queue, sign) ==
    [id \in Range(queue) |->
        << IF AnimalOf(id).species = sign THEN 0 ELSE 1,
           AnimalOf(id).arrival_time, IdRank(id) >>]

\* lines 122-132
CandidateList(queue, policy, sign) ==
    IF policy = "FIFO" THEN queue
    ELSE SortedByKey(queue, PriorityKey(queue, sign))

\* mutant: candidates[1:], the head of the list is skipped
CandidateSnapshotSkipHead(list) == Tail(list)

\* line 134: candidates[:], the copy the admission loop walks
CandidateSnapshot(list) == list

\* mutant: the latency is not added to the clock
TimeAfterSignChangeNone(now, latency) == now

\* lines 137-138: the clock after the sign was turned
TimeAfterSignChange(now, latency) ==
    IF latency > 0 THEN now + latency ELSE now

\* line 144: the entry time stamped on an admitted animal
EntryStamp(now) == now

\* mutant: the admitted animal stays in the queue
QueueAfterAdmitKept(queue, id) == queue

\* line 146: waiting_queue.remove(animal)
QueueAfterAdmit(queue, id) == SeqRemove(queue, id)

\* mutants: the sign of the empty room is not reset; the reset is not counted
SignAfterExitsKept(sign, room) == sign

ChangesAfterExitsUncounted(sign, room, changes) == changes

\* lines 113-116: the sign and the counter after the room was checked
SignAfterExits(sign, room) ==
    IF Len(room) = 0 /\ sign # EMPTY THEN EMPTY ELSE sign

ChangesAfterExits(sign, room, changes) ==
    IF Len(room) = 0 /\ sign # EMPTY THEN changes + 1 ELSE changes

\* lines 102-110: the timeline record of a leaving animal
TimelineRecord(id, exit) ==
    [animal_id |-> id,
     species |-> AnimalOf(id).species,
     arrival |-> AnimalOf(id).arrival_time,
     entry |-> entry_time[id],
     exit |-> exit,
     wait_time |-> entry_time[id] - AnimalOf(id).arrival_time,
     turnaround_time |-> exit - AnimalOf(id).arrival_time]

RECURSIVE SumOver(_, _)
SumOver(seq, field) ==
    IF Len(seq) = 0 THEN 0 ELSE Head(seq)[field] + SumOver(Tail(seq), field)

Min(a, b) == IF a < b THEN a ELSE b

\* mutant: the loop stops one animal short
LoopConditionOneShort(n_completed, n_animals, iters) ==
    n_completed < n_animals - 1 /\ iters < max_iterations

\* line 67: the condition of the while loop
LoopCondition(n_completed, n_animals, iters) ==
    n_completed < n_animals /\ iters < max_iterations

\* mutant: the leaving animals are not taken out of the room
RoomAfterRemovalKept(room, to_remove) == room

\* line 94: animals_in_room.remove(animal) for every animal of animals_to_remove
RECURSIVE RoomAfterRemoval(_, _)
RoomAfterRemoval(room, to_remove) ==
    IF Len(to_remove) = 0 THEN room
    ELSE RoomAfterRemoval(SeqRemove(room, Head(to_remove)), Tail(to_remove))

\* mutant: the jump lands one tick after the next arrival
NextArrivalTimeLate(now, arrival) == arrival + 1

\* lines 166-168: the clock jumps to the next arrival when the room is empty
\* and nobody waits
NextArrivalTime(now, arrival) == arrival

\* the reference driver of the time-skipping claim: the same loop, but the
\* clock advances by 1 where line 168 jumps
SteppedTime(now, arrival) == now + 1

\* mutant: the second simulator shares the Animal objects of the first
NewAnimalRestShared(id, previous) == previous

\* line 17 (__post_init__) for the Animal a second simulator builds from the
\* same config entry; previous is the remaining_rest of the Animal the first
\* simulator built, which __init__ does not touch
NewAnimalRest(id, previous) == AnimalOf(id).rest_duration

(* ------------------------------ actions -------------------------------- *)
\* lines 52-65
Simulate ==
    /\ pc = "new"
    /\ current_time' = 0
    /\ current_sign' = self.initial_sign
    /\ animals_in_room' = << >>
    /\ waiting_queue' = << >>
    /\ completed_animals' = << >>
    /\ total_wait_time' = 0
    /\ total_turnaround_time' = 0
    /\ sign_changes' = 0
    /\ timeline' = << >>
    /\ animals' = SortedAnimals(self.animals)
    /\ animal_idx' = 0
    /\ iterations' = 0
    /\ pc' = "while"
    /\ UNCHANGED << self, remaining_rest, entry_time, exit_time, candidates,
                    result, room_filled, room_emptied,
                    first_result, driver, otherVars >>

\* lines 67-68: the loop test and the iteration counter
WhileTest ==
    /\ pc = "while"
    /\ IF LoopCondition(Len(completed_animals), Len(animals), iterations)
       THEN /\ iterations' = iterations + 1
            /\ pc' = "arrivals"
       ELSE /\ iterations' = iterations
            /\ pc' = "return"
    /\ UNCHANGED << self, remaining_rest, entry_time, exit_time, current_time,
                    current_sign, animals_in_room, waiting_queue,
                    completed_animals, total_wait_time, total_turnaround_time,
                    sign_changes, timeline, animals, animal_idx, candidates,
                    result, room_filled, room_emptied,
                    first_result, driver, otherVars >>

\* lines 73-78
Arrivals ==
    /\ pc = "arrivals"
    /\ LET idx == ArrivalIdx(animals, animal_idx, current_time)
       IN  /\ waiting_queue' = waiting_queue \o
                  [i \in 1..(idx - animal_idx) |-> animals[animal_idx + i].id]
           /\ animal_idx' = idx
    /\ pc' = "exits"
    /\ UNCHANGED << self, remaining_rest, entry_time, exit_time, current_time,
                    current_sign, animals_in_room, completed_animals,
                    total_wait_time, total_turnaround_time, sign_changes,
                    timeline, animals, iterations, candidates, result,
                    room_filled, room_emptied,
                    first_result, driver, otherVars >>

\* lines 83-110
Exits ==
    /\ pc = "exits"
    /\ LET leaving(id) == RestFinished(remaining_rest[id])
           animals_to_remove == SelectSeq(animals_in_room, leaving)
           records == [i \in 1..Len(animals_to_remove) |->
                          TimelineRecord(animals_to_remove[i], current_time)]
       IN  /\ exit_time' = [id \in DOMAIN exit_time |->
                               IF id \in Range(animals_to_remove)
                               THEN current_time ELSE exit_time[id]]
           /\ animals_in_room' = RoomAfterRemoval(animals_in_room,
                                                   animals_to_remove)
           /\ completed_animals' = completed_animals \o animals_to_remove
           /\ total_turnaround_time' =
                  total_turnaround_time + SumOver(records, "turnaround_time")
           /\ total_wait_time' = total_wait_time + SumOver(records, "wait_time")
           /\ timeline' = timeline \o records
           /\ room_emptied' =
                  IF Len(animals_in_room) > 0
                     /\ Len(animals_to_remove) = Len(animals_in_room)
                  THEN room_emptied + 1 ELSE room_emptied
    /\ pc' = "sign"
    /\ UNCHANGED << self, remaining_rest, entry_time, current_time,
                    current_sign, waiting_queue, sign_changes, animals,
                    animal_idx, iterations, candidates, result, room_filled,
                    first_result, driver, otherVars >>

\* lines 112-117
UpdateSign ==
    /\ pc = "sign"
    /\ current_sign' = SignAfterExits(current_sign, animals_in_room)
    /\ sign_changes' =
           ChangesAfterExits(current_sign, animals_in_room, sign_changes)
    /\ pc' = "candidates"
    /\ UNCHANGED << self, remaining_rest, entry_time, exit_time, current_time,
                    animals_in_room, waiting_queue, completed_animals,
                    total_wait_time, total_turnaround_time, timeline, animals,
                    animal_idx, iterations, candidates, result, room_filled,
                    room_emptied,
                    first_result, driver, otherVars >>

\* lines 119-134: the candidate list of this tick, copied by candidates[:]
BuildCandidates ==
    /\ pc = "candidates"
    /\ candidates' =
           IF Len(waiting_queue) > 0
           THEN CandidateSnapshot(CandidateList(waiting_queue,
                                                self.queue_policy,
                                                current_sign))
           ELSE << >>
    /\ pc' = IF Len(candidates') > 0 THEN "admit" ELSE "advance"
    /\ UNCHANGED << self, remaining_rest, entry_time, exit_time, current_time,
                    current_sign, animals_in_room, waiting_queue,
                    completed_animals, total_wait_time, total_turnaround_time,
                    sign_changes, timeline, animals, animal_idx, iterations,
                    result, room_filled, room_emptied,
                    first_result, driver, otherVars >>

\* lines 134-147: one pass of the body of the admission loop
TryAdmit ==
    /\ pc = "admit"
    /\ Len(candidates) > 0
    /\ LET id == Head(candidates)
           now == IF current_sign = EMPTY
                  THEN TimeAfterSignChange(current_time,
                                           self.sign_change_latency)
                  ELSE current_time
       IN  IF CanEnterRoom(AnimalOf(id), current_sign, animals_in_room)
           THEN /\ current_time' = now
                /\ current_sign' =
                       IF current_sign = EMPTY THEN AnimalOf(id).species
                       ELSE current_sign
                /\ sign_changes' =
                       IF current_sign = EMPTY THEN sign_changes + 1
                       ELSE sign_changes
                /\ entry_time' = [entry_time EXCEPT ![id] = EntryStamp(now)]
                /\ animals_in_room' = Append(animals_in_room, id)
                /\ waiting_queue' = QueueAfterAdmit(waiting_queue, id)
                /\ room_filled' = IF Len(animals_in_room) = 0
                                  THEN room_filled + 1 ELSE room_filled
           ELSE UNCHANGED << current_time, current_sign, sign_changes,
                             entry_time, animals_in_room, waiting_queue,
                             room_filled >>
    /\ candidates' = Tail(candidates)
    /\ pc' = IF Len(candidates) > 1 THEN "admit" ELSE "advance"
    /\ UNCHANGED << self, remaining_rest, exit_time, completed_animals,
                    total_wait_time, total_turnaround_time, timeline, animals,
                    animal_idx, iterations, result, room_emptied,
                    first_result, driver, otherVars >>

\* lines 157-170
Advance ==
    /\ pc = "advance"
    /\ IF Len(animals_in_room) > 0
       THEN /\ remaining_rest' =
                   [id \in DOMAIN remaining_rest |->
                       IF id \in Range(animals_in_room)
                       THEN remaining_rest[id] - 1 ELSE remaining_rest[id]]
            /\ current_time' = current_time + 1
            /\ pc' = "while"
       ELSE IF Len(waiting_queue) > 0
       THEN /\ current_time' =
                   IF animal_idx < Len(animals)
                   THEN Min(current_time + 1,
                            animals[animal_idx + 1].arrival_time)
                   ELSE current_time + 1
            /\ pc' = "while"
            /\ UNCHANGED remaining_rest
       ELSE IF animal_idx < Len(animals)
       THEN /\ current_time' =
                   IF driver = "skip"
                   THEN NextArrivalTime(current_time,
                                        animals[animal_idx + 1].arrival_time)
                   ELSE SteppedTime(current_time,
                                    animals[animal_idx + 1].arrival_time)
            /\ pc' = "while"
            /\ UNCHANGED remaining_rest
       ELSE /\ pc' = "return"
            /\ UNCHANGED << current_time, remaining_rest >>
    /\ UNCHANGED << self, entry_time, exit_time, current_sign, animals_in_room,
                    waiting_queue, completed_animals, total_wait_time,
                    total_turnaround_time, sign_changes, timeline, animals,
                    animal_idx, iterations, candidates, result, room_filled,
                    room_emptied,
                    first_result, driver, otherVars >>

\* lines 172-184; the two averages are kept as their numerators over n
Return ==
    /\ pc = "return"
    /\ result' = [returned |-> TRUE,
                  warning |-> iterations >= max_iterations,
                  total_animals |-> Len(animals),
                  wait_time_sum |-> total_wait_time,
                  turnaround_time_sum |-> total_turnaround_time,
                  total_sign_changes |-> sign_changes,
                  total_time |-> current_time,
                  timeline |-> timeline]
    /\ pc' = "done"
    /\ UNCHANGED << self, remaining_rest, entry_time, exit_time, current_time,
                    current_sign, animals_in_room, waiting_queue,
                    completed_animals, total_wait_time, total_turnaround_time,
                    sign_changes, timeline, animals, animal_idx, iterations,
                    candidates, room_filled, room_emptied,
                    first_result, driver, otherVars >>

Next ==
    \/ Simulate
    \/ WhileTest
    \/ Arrivals
    \/ Exits
    \/ UpdateSign
    \/ BuildCandidates
    \/ TryAdmit
    \/ Advance
    \/ Return

Spec == Init /\ [][Next]_vars

\* simulate() keeps running until it returns: the bounded workloads and the
\* short scenarios, every step of the loop eventually taken
InitFair ==
    self \in BoundedConfigs \cup (ScenarioConfigs \ {MainConfig}) /\ InitFields

FairSpec == InitFair /\ [][Next]_vars /\ WF_vars(Next)

(* ---------------- a second simulator from the same config -------------- *)
\* __init__ (lines 20-37) once more, after the first simulator has returned:
\* new Animal objects, no local of simulate() alive
Construct ==
    /\ pc = "done"
    /\ ~ first_result.returned
    /\ first_result' = result
    /\ remaining_rest' = [id \in Ids |-> NewAnimalRest(id, remaining_rest[id])]
    /\ entry_time' = [id \in Ids |-> -1]
    /\ exit_time' = [id \in Ids |-> -1]
    /\ pc' = "new"
    /\ current_time' = 0
    /\ current_sign' = EMPTY
    /\ animals_in_room' = << >>
    /\ waiting_queue' = << >>
    /\ completed_animals' = << >>
    /\ total_wait_time' = 0
    /\ total_turnaround_time' = 0
    /\ sign_changes' = 0
    /\ timeline' = << >>
    /\ animals' = << >>
    /\ animal_idx' = 0
    /\ iterations' = 0
    /\ candidates' = << >>
    /\ result' = [returned |-> FALSE]
    /\ room_filled' = 0
    /\ room_emptied' = 0
    /\ UNCHANGED otherVars

\* the second simulator runs the same simulate() on the same config
NewSimulator == Construct /\ UNCHANGED << self, driver >>

\* the second simulator runs the reference driver
NewSteppingSimulator == Construct /\ UNCHANGED self /\ driver' = "step"

NextTwice ==
    \/ Next
    \/ NewSimulator

SpecTwice == Init /\ [][NextTwice]_vars

\* a workload with one arrival after max_iterations idle ticks
ScenarioSparse ==
    Config(1, "FIFO", 0, EMPTY,
           << Animal("D1", "DOG", max_iterations, 1) >>)

\* a workload with idle ticks between a departure and the next arrival
ScenarioGap ==
    Config(1, "FIFO", 1, EMPTY,
           << Animal("D1", "DOG", 0, 1), Animal("C1", "CAT", 5, 2) >>)

InitStepping ==
    self \in Configs \cup {ScenarioGap, ScenarioSparse} /\ InitFields

NextStepping ==
    \/ Next
    \/ NewSteppingSimulator

SpecStepping == InitStepping /\ [][NextStepping]_vars

(* ------------- the same workload under the other queue policy ---------- *)
OtherPolicy(queue_policy) == IF queue_policy = "FIFO" THEN "PRIORITY" ELSE "FIFO"

\* __init__ with metadata.queue_policy changed and nothing else
NewOtherPolicySimulator ==
    /\ Construct
    /\ self' = [self EXCEPT !.queue_policy = OtherPolicy(@)]
    /\ UNCHANGED driver

NextPolicies ==
    \/ Next
    \/ NewOtherPolicySimulator

SpecPolicies == Init /\ [][NextPolicies]_vars

(* ---------------- simulate() called again on one simulator -------------- *)
\* the second call starts at line 52 with the Animal objects of self.animals
\* as the first call left them: __init__ is not run again
SimulateAgain ==
    /\ pc = "done"
    /\ ~ first_result.returned
    /\ first_result' = result
    /\ result' = [returned |-> FALSE]
    /\ candidates' = << >>
    /\ room_filled' = 0
    /\ room_emptied' = 0
    /\ pc' = "new"
    /\ UNCHANGED << self, remaining_rest, entry_time, exit_time, current_time,
                    current_sign, animals_in_room, waiting_queue,
                    completed_animals, total_wait_time, total_turnaround_time,
                    sign_changes, timeline, animals, animal_idx, iterations,
                    driver, otherVars >>

NextAgain ==
    \/ Next
    \/ SimulateAgain

SpecAgain == Init /\ [][NextAgain]_vars

(* ------------- configurations outside the documented domain ------------ *)
\* a rest longer than the iteration cap, next to an animal that completes
ScenarioCap ==
    Config(1, "FIFO", 1, EMPTY,
           << Animal("D1", "DOG", 0, 1),
              Animal("D2", "DOG", 0, max_iterations) >>)

\* a species outside {DOG, CAT}, a room_count of 0, a negative latency
InvalidConfigs ==
    { Config(1, "FIFO", 0, EMPTY,
             << Animal("A1", "BIRD", 0, 1), Animal("A2", "DOG", 1, 1) >>),
      Config(0, "FIFO", 0, EMPTY, << Animal("A1", "DOG", 0, 1) >>),
      Config(1, "FIFO", -1, EMPTY, << Animal("A1", "DOG", 0, 1) >>) }

InitAnyConfig ==
    self \in Configs \cup InvalidConfigs \cup {ScenarioCap} /\ InitFields

SpecAnyConfig == InitAnyConfig /\ [][Next]_vars

(* ===================== src/programadores.py ============================ *)
\* mutant: the test forgets the compiler
ResourcesBusyDbOnly(compiler, db) == db >= MAX_DB_USERS

\* line 44: the condition of the wait loop
ResourcesBusy(compiler, db) == compiler \/ db >= MAX_DB_USERS

\* mutant: the connection is not given back
DbAfterReleaseKept(db) == db

\* line 62
DbAfterRelease(db) == db - 1

\* mutant: only one waiting thread is woken
NotifiedWaitersOne(w) == IF w = {} THEN {} ELSE w \ {CHOOSE p \in w : TRUE}

\* line 66, notify_all(): the threads left in the wait queue
NotifiedWaiters(w) == {}

\* lines 32-33: the status, then the sleep
Think(p) ==
    /\ prog_pc[p] = "think"
    /\ programmers_status' =
           [programmers_status EXCEPT ![p] = << "Pensando (descansando)" >>]
    /\ prog_pc' = [prog_pc EXCEPT ![p] = "ask"]
    /\ UNCHANGED << compiler_in_use, db_users, lock_holder, waiters,
                    display_pc, displayed,
                    roomVars, schedVars >>

\* line 36
Ask(p) ==
    /\ prog_pc[p] = "ask"
    /\ programmers_status' =
           [programmers_status EXCEPT ![p] = << "Aguardando recursos" >>]
    /\ prog_pc' = [prog_pc EXCEPT ![p] = "enter"]
    /\ UNCHANGED << compiler_in_use, db_users, lock_holder, waiters,
                    display_pc, displayed,
                    roomVars, schedVars >>

\* line 38: with resource_condition, the lock is taken when it is free
Enter(p) ==
    /\ prog_pc[p] = "enter"
    /\ lock_holder = NoThread
    /\ lock_holder' = p
    /\ prog_pc' = [prog_pc EXCEPT ![p] = "test"]
    /\ UNCHANGED << compiler_in_use, db_users, programmers_status, waiters,
                    display_pc, displayed,
                    roomVars, schedVars >>

\* lines 44-45: the loop test; wait() puts the thread in the wait queue and
\* releases the lock
Test(p) ==
    /\ prog_pc[p] = "test"
    /\ lock_holder = p
    /\ IF ResourcesBusy(compiler_in_use, db_users)
       THEN /\ waiters' = waiters \cup {p}
            /\ lock_holder' = NoThread
            /\ prog_pc' = [prog_pc EXCEPT ![p] = "wait"]
       ELSE /\ prog_pc' = [prog_pc EXCEPT ![p] = "take_compiler"]
            /\ UNCHANGED << waiters, lock_holder >>
    /\ UNCHANGED << compiler_in_use, db_users, programmers_status,
                    display_pc, displayed,
                    roomVars, schedVars >>

\* line 45: wait() returns once the thread was notified and has the lock again
Wake(p) ==
    /\ prog_pc[p] = "wait"
    /\ p \notin waiters
    /\ lock_holder = NoThread
    /\ lock_holder' = p
    /\ prog_pc' = [prog_pc EXCEPT ![p] = "test"]
    /\ UNCHANGED << compiler_in_use, db_users, programmers_status, waiters,
                    display_pc, displayed,
                    roomVars, schedVars >>

\* line 49
TakeCompiler(p) ==
    /\ prog_pc[p] = "take_compiler"
    /\ compiler_in_use' = TRUE
    /\ prog_pc' = [prog_pc EXCEPT ![p] = "take_db"]
    /\ UNCHANGED << db_users, programmers_status, lock_holder, waiters,
                    display_pc, displayed,
                    roomVars, schedVars >>

\* lines 50-51 and the end of the with block
TakeDb(p) ==
    /\ prog_pc[p] = "take_db"
    /\ db_users' = db_users + 1
    /\ programmers_status' =
           [programmers_status EXCEPT ![p] = << "COMPILANDO", db_users' >>]
    /\ lock_holder' = NoThread
    /\ prog_pc' = [prog_pc EXCEPT ![p] = "compile"]
    /\ UNCHANGED << compiler_in_use, waiters, display_pc, displayed,
                    roomVars, schedVars >>

\* line 56: the sleep of the compilation
Compile(p) ==
    /\ prog_pc[p] = "compile"
    /\ prog_pc' = [prog_pc EXCEPT ![p] = "leave"]
    /\ UNCHANGED << compiler_in_use, db_users, programmers_status,
                    lock_holder, waiters, display_pc, displayed,
                    roomVars, schedVars >>

\* line 59
Leave(p) ==
    /\ prog_pc[p] = "leave"
    /\ lock_holder = NoThread
    /\ lock_holder' = p
    /\ prog_pc' = [prog_pc EXCEPT ![p] = "free_compiler"]
    /\ UNCHANGED << compiler_in_use, db_users, programmers_status, waiters,
                    display_pc, displayed,
                    roomVars, schedVars >>

\* lines 60-61
FreeCompiler(p) ==
    /\ prog_pc[p] = "free_compiler"
    /\ programmers_status' =
           [programmers_status EXCEPT ![p] = << "Liberando recursos" >>]
    /\ compiler_in_use' = FALSE
    /\ prog_pc' = [prog_pc EXCEPT ![p] = "free_db"]
    /\ UNCHANGED << db_users, lock_holder, waiters, display_pc, displayed,
                    roomVars, schedVars >>

\* line 62
FreeDb(p) ==
    /\ prog_pc[p] = "free_db"
    /\ db_users' = DbAfterRelease(db_users)
    /\ prog_pc' = [prog_pc EXCEPT ![p] = "notify"]
    /\ UNCHANGED << compiler_in_use, programmers_status, lock_holder,
                    waiters, display_pc, displayed,
                    roomVars, schedVars >>

\* line 66 and the end of the with block; the loop of line 30 starts again
NotifyAll(p) ==
    /\ prog_pc[p] = "notify"
    /\ waiters' = NotifiedWaiters(waiters)
    /\ lock_holder' = NoThread
    /\ prog_pc' = [prog_pc EXCEPT ![p] = "think"]
    /\ UNCHANGED << compiler_in_use, db_users, programmers_status,
                    display_pc, displayed,
                    roomVars, schedVars >>

\* display_status, line 77
DisplayEnter ==
    /\ display_pc = "enter"
    /\ lock_holder = NoThread
    /\ lock_holder' = MainThread
    /\ display_pc' = "read"
    /\ UNCHANGED << compiler_in_use, db_users, programmers_status, prog_pc,
                    waiters, displayed,
                    roomVars, schedVars >>

\* display_status, lines 78-86 and the end of the with block; line 88 sleeps
DisplayRead ==
    /\ display_pc = "read"
    /\ displayed' = [compiler_in_use |-> compiler_in_use,
                     db_users |-> db_users]
    /\ lock_holder' = NoThread
    /\ display_pc' = "enter"
    /\ UNCHANGED << compiler_in_use, db_users, programmers_status, prog_pc,
                    waiters,
                    roomVars, schedVars >>

\* one step of the thread of programmer p
programmer_life(p) ==
    \/ Think(p)
    \/ Ask(p)
    \/ Enter(p)
    \/ Test(p)
    \/ Wake(p)
    \/ TakeCompiler(p)
    \/ TakeDb(p)
    \/ Compile(p)
    \/ Leave(p)
    \/ FreeCompiler(p)
    \/ FreeDb(p)
    \/ NotifyAll(p)

display_status == DisplayEnter \/ DisplayRead

ProgNext ==
    \/ \E p \in Programmers : programmer_life(p)
    \/ display_status

\* no simulator is running next to the threads
NoAnimals == Config(1, "FIFO", 0, EMPTY, << >>)

ProgInit == self = NoAnimals /\ InitFields

ProgSpec == ProgInit /\ [][ProgNext]_vars

\* the steps that take resource_condition's lock
LockStep(p) == Enter(p) \/ Wake(p) \/ Leave(p)

\* every thread keeps running, and a thread that asks for the lock gets it:
\* the lock is held for a few statements and every holder sleeps outside it
FairProgSpec ==
    /\ ProgSpec
    /\ WF_vars(display_status)
    /\ \A p \in Programmers :
          WF_vars(programmer_life(p)) /\ SF_vars(LockStep(p))

(* ====================== src/escalonamento.py =========================== *)
(* escalonamentoJson1.py holds the same three methods, with the same       *)
(* statements on the scheduling path.                                      *)

\* key=lambda p: p.arrival_time (lines 31, 150)
ProcArrivalKey(seq) == [x \in Range(seq) |-> << x.arrival_time >>]

ProcOf(pid) ==
    LET i == CHOOSE k \in 1..Len(scheduler.processes) :
                 scheduler.processes[k].pid = pid
    IN  scheduler.processes[i]

\* lines 96-97: the processes that have arrived and are not completed, in
\* list order
RECURSIVE Available(_, _, _)
Available(list, now, done) ==
    IF Len(list) = 0 THEN << >>
    ELSE (IF Head(list).arrival_time <= now /\ Head(list).pid \notin done
          THEN << Head(list).pid >> ELSE << >>)
         \o Available(Tail(list), now, done)

\* mutant: the first available process is taken
ShortestJobFirstListed(available) == Head(available)

\* line 107, min(available, key=burst_time): the first of the list among
\* those of least burst_time
ShortestJob(available) ==
    LET i == CHOOSE k \in 1..Len(available) :
                 /\ \A j \in 1..Len(available) :
                       ProcOf(available[k]).burst_time
                           <= ProcOf(available[j]).burst_time
                 /\ \A j \in 1..(k - 1) :
                       ProcOf(available[j]).burst_time
                           > ProcOf(available[k]).burst_time
    IN  available[i]

\* lines 101-102: the earliest arrival among the processes not completed
NextProcArrival(done) ==
    LET pending == { ProcOf(pid).arrival_time : pid \in Pids \ done }
    IN  CHOOSE t \in pending : \A u \in pending : t <= u

\* mutant: the slice is always a whole quantum
ExecTimeWholeQuantum(quantum, remaining) == quantum

\* line 188
ExecTime(quantum, remaining) == Min(quantum, remaining)

\* lines 46, 110, 180
ResponseTime(now, arrival) == now - arrival

\* lines 55-59, 119-123, 189-193
Slice(pid, start, length) == [pid |-> pid, start |-> start, end |-> start + length]

\* lines 165-167 and 200-202: the index after the arrivals up to now
RECURSIVE QueuedUpTo(_, _, _)
QueuedUpTo(list, i, now) ==
    IF i < Len(list) /\ list[i + 1].arrival_time <= now
    THEN QueuedUpTo(list, i + 1, now)
    ELSE i

PidsBetween(list, i, j) == [k \in 1..(j - i) |-> list[i + k].pid]

\* the first statements of the method: lines 31-38, 83-92, 148-161
SchedStart ==
    /\ sched_pc = "new"
    /\ processes' =
           IF scheduler.algorithm = "SJF" THEN scheduler.processes
           ELSE SortedByKey(scheduler.processes,
                            ProcArrivalKey(scheduler.processes))
    /\ sched_time' = 0
    /\ total_wait' = 0
    /\ total_turnaround' = 0
    /\ total_response' = 0
    /\ context_switches' = 0
    /\ sched_timeline' = << >>
    /\ completed' = IF scheduler.algorithm = "SJF" THEN {} ELSE 0
    /\ sched_queue' = << >>
    /\ sched_idx' = 0
    /\ last_pid' = "None"
    /\ remaining_time' = [pid \in Pids |-> ProcOf(pid).burst_time]
    /\ first_response' = [pid \in Pids |-> -1]
    /\ sched_pc' = scheduler.algorithm
    /\ UNCHANGED << scheduler, proc, sched_result, roomVars, progVars >>

\* simulate_fcfs, lines 40-67: one pass of the for loop, or its end
FcfsStep ==
    /\ sched_pc = "FCFS"
    /\ IF sched_idx < Len(processes)
       THEN LET p == processes[sched_idx + 1]
                arrived == IF sched_time < p.arrival_time
                           THEN p.arrival_time ELSE sched_time
                start == IF sched_idx > 0
                         THEN arrived + scheduler.context_switch_cost
                         ELSE arrived
                finish == start + p.burst_time
            IN  /\ total_response' =
                       total_response + ResponseTime(arrived, p.arrival_time)
                /\ context_switches' =
                       IF sched_idx > 0 THEN context_switches + 1
                       ELSE context_switches
                /\ sched_timeline' =
                       Append(sched_timeline, Slice(p.pid, start, p.burst_time))
                /\ sched_time' = finish
                /\ total_wait' =
                       total_wait + ((finish - p.arrival_time) - p.burst_time)
                /\ total_turnaround' =
                       total_turnaround + (finish - p.arrival_time)
                /\ sched_idx' = sched_idx + 1
                /\ UNCHANGED sched_pc
       ELSE /\ sched_pc' = "return"
            /\ UNCHANGED << total_response, context_switches, sched_timeline,
                            sched_time, total_wait, total_turnaround,
                            sched_idx >>
    /\ UNCHANGED << scheduler, processes, completed, proc, sched_queue,
                    last_pid, remaining_time, first_response, sched_result,
                    roomVars, progVars >>

\* simulate_sjf, lines 94-107: the loop test, the jump to the next arrival or
\* the choice of the process
SjfSelect ==
    /\ sched_pc = "SJF"
    /\ IF Cardinality(completed) < Len(processes)
       THEN LET available == Available(processes, sched_time, completed)
            IN  IF Len(available) = 0
                THEN /\ sched_time' = NextProcArrival(completed)
                     /\ UNCHANGED << proc, sched_pc >>
                ELSE /\ proc' = ShortestJob(available)
                     /\ sched_pc' = "SJF_run"
                     /\ UNCHANGED sched_time
       ELSE /\ sched_pc' = "return"
            /\ UNCHANGED << proc, sched_time >>
    /\ UNCHANGED << scheduler, processes, total_wait, total_turnaround,
                    total_response, context_switches, sched_timeline,
                    completed, sched_queue, sched_idx, last_pid,
                    remaining_time, first_response, sched_result,
                    roomVars, progVars >>

\* simulate_sjf, lines 109-132
SjfRun ==
    /\ sched_pc = "SJF_run"
    /\ LET p == ProcOf(proc)
           start == IF Cardinality(completed) > 0
                    THEN sched_time + scheduler.context_switch_cost
                    ELSE sched_time
           finish == start + p.burst_time
       IN  /\ total_response' =
                  total_response + ResponseTime(sched_time, p.arrival_time)
           /\ context_switches' =
                  IF Cardinality(completed) > 0 THEN context_switches + 1
                  ELSE context_switches
           /\ sched_timeline' =
                  Append(sched_timeline, Slice(p.pid, start, p.burst_time))
           /\ sched_time' = finish
           /\ total_wait' =
                  total_wait + ((finish - p.arrival_time) - p.burst_time)
           /\ total_turnaround' = total_turnaround + (finish - p.arrival_time)
           /\ completed' = completed \cup {p.pid}
    /\ sched_pc' = "SJF"
    /\ UNCHANGED << scheduler, processes, proc, sched_queue, sched_idx,
                    last_pid, remaining_time, first_response, sched_result,
                    roomVars, progVars >>

\* simulate_rr, lines 163-213: one pass of the while loop, or its end
RrStep ==
    /\ sched_pc = "RR"
    /\ IF completed < Len(processes)
       THEN LET idx1 == QueuedUpTo(processes, sched_idx, sched_time)
                queue1 == sched_queue
                              \o PidsBetween(processes, sched_idx, idx1)
            IN  IF Len(queue1) = 0
                THEN /\ sched_time' = processes[idx1 + 1].arrival_time
                     /\ sched_idx' = idx1
                     /\ UNCHANGED << sched_queue, first_response,
                                     total_response, context_switches,
                                     sched_timeline, remaining_time, last_pid,
                                     total_wait, total_turnaround, completed >>
                ELSE LET pid == Head(queue1)
                         p == ProcOf(pid)
                         first == first_response[pid] = -1
                         switch == last_pid # "None" /\ last_pid # pid
                         start == IF switch
                                  THEN sched_time + scheduler.context_switch_cost
                                  ELSE sched_time
                         exec_time == ExecTime(scheduler.quantum,
                                               remaining_time[pid])
                         finish == start + exec_time
                         left == remaining_time[pid] - exec_time
                         idx2 == QueuedUpTo(processes, idx1, finish)
                         queue2 == Tail(queue1)
                                       \o PidsBetween(processes, idx1, idx2)
                     IN  /\ first_response' =
                                IF first
                                THEN [first_response EXCEPT ![pid] = sched_time]
                                ELSE first_response
                         /\ total_response' =
                                IF first
                                THEN total_response
                                       + ResponseTime(sched_time, p.arrival_time)
                                ELSE total_response
                         /\ context_switches' =
                                IF switch THEN context_switches + 1
                                ELSE context_switches
                         /\ sched_timeline' =
                                Append(sched_timeline,
                                       Slice(pid, start, exec_time))
                         /\ sched_time' = finish
                         /\ remaining_time' =
                                [remaining_time EXCEPT ![pid] = left]
                         /\ last_pid' = pid
                         /\ sched_idx' = idx2
                         /\ IF left > 0
                            THEN /\ sched_queue' = Append(queue2, pid)
                                 /\ UNCHANGED << total_wait, total_turnaround,
                                                 completed >>
                            ELSE /\ sched_queue' = queue2
                                 /\ total_wait' =
                                        total_wait + ((finish - p.arrival_time)
                                                        - p.burst_time)
                                 /\ total_turnaround' =
                                        total_turnaround
                                          + (finish - p.arrival_time)
                                 /\ completed' = completed + 1
       ELSE UNCHANGED << sched_queue, first_response, total_response,
                         context_switches, sched_timeline, sched_time,
                         remaining_time, last_pid, sched_idx, total_wait,
                         total_turnaround, completed >>
    /\ sched_pc' = IF completed < Len(processes) THEN "RR" ELSE "return"
    /\ UNCHANGED << scheduler, processes, proc, sched_result,
                    roomVars, progVars >>

\* lines 69-79, 134-144, 215-225: the averages divide by n = len(processes)
\* and raise ZeroDivisionError for an empty workload
SchedReturn ==
    /\ sched_pc = "return"
    /\ sched_result' =
           IF Len(processes) = 0
           THEN [returned |-> FALSE, raised |-> "ZeroDivisionError"]
           ELSE [returned |-> TRUE,
                 algorithm |-> scheduler.algorithm,
                 quantum |-> scheduler.quantum,
                 n |-> Len(processes),
                 wait_sum |-> total_wait,
                 turnaround_sum |-> total_turnaround,
                 response_sum |-> total_response,
                 context_switches |-> context_switches,
                 timeline |-> sched_timeline]
    /\ sched_pc' = "done"
    /\ UNCHANGED << scheduler, processes, sched_time, total_wait,
                    total_turnaround, total_response, context_switches,
                    sched_timeline, completed, proc, sched_queue, sched_idx,
                    last_pid, remaining_time, first_response,
                    roomVars, progVars >>

SchedNext ==
    \/ SchedStart
    \/ FcfsStep
    \/ SjfSelect
    \/ SjfRun
    \/ RrStep
    \/ SchedReturn

(* ----------------------- scheduling configurations --------------------- *)
BoundPids == << "P1", "P2", "P3", "P4" >>

\* every workload of at most MaxProcesses processes, listed by descending pid
BoundedProcesses ==
    UNION { { [i \in 1..n |-> Process(BoundPids[n + 1 - i], f[i].arrival_time,
                                      f[i].burst_time)] :
              f \in [1..n -> [arrival_time : 0..MaxProcArrival,
                              burst_time : 1..MaxBurst]] } :
            n \in 0..MaxProcesses }

\* the methods run_all_simulations can call
Methods ==
    { << "FCFS", "-" >>, << "SJF", "-" >> }
        \cup { << "RR", q >> : q \in 1..MaxQuantum }

BoundedSchedConfigs ==
    { SchedConfig(c, m[1], m[2], w) :
        c \in 0..MaxSwitchCost, m \in Methods, w \in BoundedProcesses }

\* the config of main(), lines 293-311
MainProcesses ==
    << Process("P01", 0, 5), Process("P02", 1, 17), Process("P03", 2, 3),
       Process("P04", 4, 22), Process("P05", 6, 7) >>

MainSchedConfigs ==
    { SchedConfig(1, m[1], m[2], MainProcesses) :
        m \in { << "FCFS", "-" >>, << "SJF", "-" >>, << "RR", 1 >>,
                << "RR", 2 >>, << "RR", 4 >>, << "RR", 8 >>, << "RR", 16 >> } }

SchedConfigs == BoundedSchedConfigs \cup MainSchedConfigs

SchedInit ==
    /\ self = NoAnimals
    /\ RoomInitFields
    /\ ProgInitFields
    /\ scheduler \in SchedConfigs
    /\ SchedInitFields

SchedSpec == SchedInit /\ [][SchedNext]_vars

\* the method keeps running until it returns
FairSchedSpec == SchedSpec /\ WF_vars(SchedNext)

(* ======================= properties of simulate() ====================== *)
SpeciesOf(id) == AnimalOf(id).species

NotArrivedSet ==
    IF pc = "new" THEN Ids
    ELSE { animals[i].id : i \in (animal_idx + 1)..Len(animals) }
WaitingSet == Range(waiting_queue)
InRoomSet == Range(animals_in_room)
CompletedSet == Range(completed_animals)

\* C1: all occupants of the room have the same species in every state of
\* simulate(), the states between two candidates of an admission pass included.
C1_NoSpeciesMixing ==
    \A i, j \in 1..Len(animals_in_room) :
        SpeciesOf(animals_in_room[i]) = SpeciesOf(animals_in_room[j])

\* an occupied room in the middle of a pass that has just refused a waiting
\* animal of the other species
C1_Witness ==
    /\ pc = "admit"
    /\ Len(animals_in_room) >= 1
    /\ \E id \in WaitingSet :
          /\ id \notin Range(candidates)
          /\ SpeciesOf(id) # SpeciesOf(animals_in_room[1])

\* C2: the number of occupants never exceeds the configured room capacity
\* (room_count).
C2_CapacityRespected == Len(animals_in_room) <= self.room_count

\* C3: the four sets not-arrived, waiting, in-room, completed are pairwise
\* disjoint, cover the workload, hold no animal twice, and an animal only moves
\* forward through them.
StageOf(id) ==
    IF id \in CompletedSet THEN 3
    ELSE IF id \in InRoomSet THEN 2
    ELSE IF id \in WaitingSet THEN 1
    ELSE 0

PartitionInv ==
    /\ NotArrivedSet \cup WaitingSet \cup InRoomSet \cup CompletedSet = Ids
    /\ NotArrivedSet \cap WaitingSet = {}
    /\ NotArrivedSet \cap InRoomSet = {}
    /\ NotArrivedSet \cap CompletedSet = {}
    /\ WaitingSet \cap InRoomSet = {}
    /\ WaitingSet \cap CompletedSet = {}
    /\ InRoomSet \cap CompletedSet = {}
    /\ Cardinality(WaitingSet) = Len(waiting_queue)
    /\ Cardinality(InRoomSet) = Len(animals_in_room)
    /\ Cardinality(CompletedSet) = Len(completed_animals)
    /\ pc # "new" => Cardinality(NotArrivedSet) = Len(animals) - animal_idx

StageForward == \A id \in Ids : StageOf(id)' >= StageOf(id)

C3_Partition == [] PartitionInv /\ [][StageForward]_vars

\* the four stages are all inhabited at once
C3_Witness ==
    /\ pc = "advance"
    /\ NotArrivedSet # {}
    /\ WaitingSet # {}
    /\ InRoomSet # {}
    /\ CompletedSet # {}

\* C4: a non-empty room shows the species of its occupants; an empty room shows
\* EMPTY from the sign update of the tick on, that is before any admission is
\* evaluated.
C4_SignCoherence ==
    /\ \A i \in 1..Len(animals_in_room) :
          current_sign = SpeciesOf(animals_in_room[i])
    /\ (Len(animals_in_room) = 0 /\ pc \in {"candidates", "admit", "advance"})
          => current_sign = EMPTY

\* the room was emptied, the sign went back to EMPTY and a candidate of the
\* other species is about to be evaluated
C4_Witness ==
    /\ pc = "admit"
    /\ Len(animals_in_room) = 0
    /\ room_emptied >= 1
    /\ \E id \in CompletedSet : SpeciesOf(id) # SpeciesOf(Head(candidates))

\* C5: a completed animal left exactly rest_duration after it entered.
C5_ExitAfterRest ==
    /\ \A id \in CompletedSet :
          exit_time[id] = entry_time[id] + AnimalOf(id).rest_duration
    /\ \A i \in 1..Len(timeline) :
          timeline[i].exit =
              timeline[i].entry + AnimalOf(timeline[i].animal_id).rest_duration

\* an animal that waited, entered after a sign latency and rested for more than
\* one tick has completed
C5_Witness ==
    /\ self.sign_change_latency > 0
    /\ \E id \in CompletedSet :
          /\ AnimalOf(id).rest_duration >= 2
          /\ entry_time[id] > AnimalOf(id).arrival_time

\* C6: no timeline record has an entry before the arrival, and no wait time is
\* negative.
C6_EntryAfterArrival ==
    /\ \A i \in 1..Len(timeline) :
          /\ timeline[i].entry >= timeline[i].arrival
          /\ timeline[i].wait_time >= 0
    /\ \A id \in InRoomSet \cup CompletedSet :
          entry_time[id] >= AnimalOf(id).arrival_time

\* a record of an animal that arrived after time 0 and entered on arrival, and
\* one of an animal that waited
C6_Witness ==
    /\ \E i \in 1..Len(timeline) :
          timeline[i].arrival > 0 /\ timeline[i].entry = timeline[i].arrival
    /\ \E i \in 1..Len(timeline) : timeline[i].wait_time > 0

\* C7 as stated: at the end of the run the counter equals the number of
\* room-empty -> non-empty events plus the number of non-empty -> empty events,
\* for every initial sign.
C7_ChangesEqualEvents ==
    pc = "done" => result.total_sign_changes = room_filled + room_emptied

\* C7 amended: the counter equals the number of those events, plus one when the
\* initial sign is a species and the loop ran: the first tick turns the sign of
\* the still empty room to EMPTY and counts it.
InitialReset ==
    IF self.initial_sign # EMPTY /\ iterations >= 1 THEN 1 ELSE 0

C7_ChangesEqualEventsPlusReset ==
    /\ pc \in {"while", "return", "done"}
          => sign_changes = room_filled + room_emptied + InitialReset
    /\ pc = "done"
          => result.total_sign_changes
                 = room_filled + room_emptied + InitialReset

\* a finished run that started with a species on the sign and filled and
\* emptied the room
C7_Witness ==
    /\ pc = "done"
    /\ self.initial_sign # EMPTY
    /\ room_filled >= 1
    /\ room_emptied >= 1

\* C8: an animal admitted into an empty room at time t gets entry_time
\* t + sign_change_latency; with latency 2, one DOG arriving at 0 and resting 3
\* enters at 2 and leaves at 5.
AdmittedIntoEmptyRoom(id) ==
    /\ Len(animals_in_room) = 0
    /\ id \in Range(animals_in_room')

LatencyScenarioResult ==
    (self = ScenarioLatency /\ pc = "done")
        => /\ Len(result.timeline) = 1
           /\ result.timeline[1].animal_id = "D1"
           /\ result.timeline[1].entry = 2
           /\ result.timeline[1].exit = 5

C8_LatencyBeforeEntry ==
    /\ [][\A id \in Ids :
             AdmittedIntoEmptyRoom(id)
                 => entry_time'[id] = current_time + self.sign_change_latency]_vars
    /\ [] LatencyScenarioResult

\* the latency scenario has run to its end
C8_Witness ==
    /\ self = ScenarioLatency
    /\ pc = "done"
    /\ room_filled = 1

\* C9 as stated: the two-species scenario ends with D1 0..5, C1 5..8 and
\* total_sign_changes = 3.
ScenarioTimes ==
    /\ Len(result.timeline) = 2
    /\ result.timeline[1].animal_id = "D1"
    /\ result.timeline[1].entry = 0
    /\ result.timeline[1].exit = 5
    /\ result.timeline[2].animal_id = "C1"
    /\ result.timeline[2].entry = 5
    /\ result.timeline[2].exit = 8

C9_ScenarioThreeChanges ==
    (self = ScenarioTwoSpecies /\ pc = "done")
        => ScenarioTimes /\ result.total_sign_changes = 3

\* C9 amended: the same times, and total_sign_changes = 4 (EMPTY -> DOG,
\* DOG -> EMPTY, EMPTY -> CAT, CAT -> EMPTY).
C9_ScenarioFourChanges ==
    (self = ScenarioTwoSpecies /\ pc = "done")
        => ScenarioTimes /\ result.total_sign_changes = 4

C9_Witness ==
    /\ self = ScenarioTwoSpecies
    /\ pc = "done"
    /\ Len(result.timeline) = 2

\* C10: under FIFO, of two animals of one species the one that arrived strictly
\* earlier has entered whenever the later one has, and not after it.
C10_FifoSameSpecies ==
    self.queue_policy = "FIFO" =>
        \A a, b \in Ids :
            ( /\ AnimalOf(a).arrival_time < AnimalOf(b).arrival_time
              /\ SpeciesOf(a) = SpeciesOf(b)
              /\ entry_time[b] # -1 )
            => /\ entry_time[a] # -1
               /\ entry_time[a] <= entry_time[b]

\* two animals of one species, the later one entered strictly later, after
\* both had waited for the other species to leave
C10_Witness ==
    /\ self.queue_policy = "FIFO"
    /\ \E a, b \in Ids :
          /\ AnimalOf(a).arrival_time < AnimalOf(b).arrival_time
          /\ SpeciesOf(a) = SpeciesOf(b)
          /\ entry_time[a] # -1
          /\ entry_time[a] < entry_time[b]

\* C11: under FIFO no animal is admitted while an animal that arrived strictly
\* earlier is still waiting.  An animal that arrived strictly earlier was queued
\* no later, so the claim says that nobody who has entered arrived strictly
\* after somebody who still waits.
C11_FifoNoOvertaking ==
    self.queue_policy = "FIFO" =>
        \A a \in WaitingSet :
            \A b \in InRoomSet \cup CompletedSet :
                ~ (AnimalOf(a).arrival_time < AnimalOf(b).arrival_time)

\* C12: under the priority policy the candidates of a tick are the waiting
\* animals in strictly increasing order of (0 if species = sign else 1,
\* arrival_time, id), the sign being the one shown when the list is built; in
\* the priority scenario the DOG D2 enters before the CAT C1 that arrived
\* earlier.
SignRank(id, sign) == IF SpeciesOf(id) = sign THEN 0 ELSE 1

PriorityBefore(a, b, sign) ==
    \/ SignRank(a, sign) < SignRank(b, sign)
    \/ /\ SignRank(a, sign) = SignRank(b, sign)
       /\ AnimalOf(a).arrival_time < AnimalOf(b).arrival_time
    \/ /\ SignRank(a, sign) = SignRank(b, sign)
       /\ AnimalOf(a).arrival_time = AnimalOf(b).arrival_time
       /\ IdRank(a) < IdRank(b)

CandidatesInPriorityOrder ==
    (pc = "candidates" /\ self.queue_policy # "FIFO")
        => /\ Len(candidates') = Len(waiting_queue)
           /\ Range(candidates') = WaitingSet
           /\ \A i, j \in 1..Len(candidates') :
                 i < j => PriorityBefore(candidates'[i], candidates'[j],
                                         current_sign)

PriorityScenarioResult ==
    (self = ScenarioPriority /\ pc = "done")
        => /\ Len(result.timeline) = 3
           /\ result.timeline[2].animal_id = "D2"
           /\ result.timeline[3].animal_id = "C1"
           /\ result.timeline[2].entry < result.timeline[3].entry

C12_PriorityBySignMatch ==
    /\ [][CandidatesInPriorityOrder]_vars
    /\ [] PriorityScenarioResult

\* the sign shows DOG, the CAT that arrived first and a later DOG wait, and the
\* DOG is the first candidate
C12_Witness ==
    /\ self.queue_policy # "FIFO"
    /\ pc = "admit"
    /\ current_sign = "DOG"
    /\ Len(waiting_queue) = 2
    /\ Len(candidates) = 2
    /\ SpeciesOf(waiting_queue[1]) = "CAT"
    /\ SpeciesOf(candidates[1]) = "DOG"
    /\ AnimalOf(waiting_queue[1]).arrival_time
           < AnimalOf(candidates[1]).arrival_time

\* C13: simulate() terminates, and when it ends below the iteration cap every
\* animal of the workload is completed: it has an exit time and a timeline
\* record.
AllCompleted ==
    /\ CompletedSet = Ids
    /\ \A id \in Ids :
          /\ exit_time[id] # -1
          /\ \E i \in 1..Len(result.timeline) :
                result.timeline[i].animal_id = id

C13_TerminatesCompleted ==
    /\ <>(pc = "done")
    /\ []((pc = "done" /\ iterations < max_iterations) => AllCompleted)

\* a finished run of two animals of different species, the second of which
\* had to wait for the room
C13_Witness ==
    /\ pc = "done"
    /\ Len(result.timeline) = 2
    /\ SpeciesOf(result.timeline[1].animal_id)
           # SpeciesOf(result.timeline[2].animal_id)
    /\ result.timeline[2].wait_time > 0

\* C14: when simulate() reaches the iteration cap without every animal
\* completed, it does not return an ordinary metrics result computed from the
\* partially completed run.
CapReachedIncomplete ==
    /\ pc = "done"
    /\ iterations >= max_iterations
    /\ Len(completed_animals) < Len(animals)

C14_LivelockReported == CapReachedIncomplete => ~ result.returned

\* C15: a configuration with a species outside the allowed set, a
\* non-positive capacity or a negative latency is rejected before any tick is
\* simulated: no iteration runs, no animal is admitted and no timeline record
\* is written.
ConfigValid ==
    /\ \A i \in 1..Len(self.animals) : self.animals[i].species \in Species
    /\ self.room_count >= 1
    /\ self.sign_change_latency >= 0

C15_ConfigRejected ==
    ~ ConfigValid =>
        /\ iterations = 0
        /\ \A id \in Ids : entry_time[id] = -1
        /\ timeline = << >>

IsPrefix(s, t) == Len(s) <= Len(t) /\ SubSeq(t, 1, Len(s)) = s

TimelineAppendOnly == IsPrefix(timeline, timeline')

TimelineOncePerCompleted ==
    /\ Len(timeline) = Len(completed_animals)
    /\ \A i \in 1..Len(timeline) :
          timeline[i].animal_id = completed_animals[i]
    /\ \A i, j \in 1..Len(timeline) :
          i < j => /\ timeline[i].animal_id # timeline[j].animal_id
                   /\ timeline[i].exit <= timeline[j].exit

C17_TimelineWriteOnce ==
    [][TimelineAppendOnly]_vars /\ []TimelineOncePerCompleted

\* the loop is still running with two records written at different ticks
C17_Witness ==
    /\ pc = "sign"
    /\ \E i \in 1..(Len(timeline) - 1) : timeline[i].exit < timeline[i + 1].exit
    /\ Len(completed_animals) < Len(animals)

\* C18: the result satisfies avg_wait_time * N = sum of (entry - arrival)
\* and avg_turnaround_time * N = sum of (exit - arrival) over the N timeline
\* records; total_time is the exit time of the last animal; for an empty
\* workload both averages are 0.
\* lines 178-179: the average is sum / n for n = len(self.animals) > 0 and 0
\* for n = 0; avg * N = S without the division
MeanTimesCountIs(sum, n, N, S) ==
    IF n = 0 THEN 0 * N = S ELSE sum * N = S * n

LastExit(tl) == IF Len(tl) = 0 THEN 0 ELSE tl[Len(tl)].exit

C18_MetricsFold ==
    pc = "done" =>
        LET tl == result.timeline
            N == Len(tl)
        IN  /\ MeanTimesCountIs(result.wait_time_sum, result.total_animals, N,
                                SumOver([i \in 1..N |->
                                    [d |-> tl[i].entry - tl[i].arrival]], "d"))
            /\ MeanTimesCountIs(result.turnaround_time_sum,
                                result.total_animals, N,
                                SumOver([i \in 1..N |->
                                    [d |-> tl[i].exit - tl[i].arrival]], "d"))
            /\ result.total_time = LastExit(tl)
            /\ result.total_time = current_time
            /\ Len(self.animals) = 0 =>
                   /\ result.wait_time_sum = 0
                   /\ result.turnaround_time_sum = 0

\* C20: the driver that advances the clock by 1 on every iteration returns
\* the same timeline, total_sign_changes and total_time as simulate() with
\* its jump to the next arrival, for every workload.
SameObservables ==
    /\ result.timeline = first_result.timeline
    /\ result.total_sign_changes = first_result.total_sign_changes
    /\ result.total_time = first_result.total_time

SteppingRunReturned ==
    /\ pc = "done"
    /\ driver = "step"
    /\ first_result.returned

AdmissionStepOver == pc \notin {"new", "admit"}

EnteredBy(id, T) == entry_time[id] # -1 /\ entry_time[id] <= T

C21_ArrivedEnterTogether ==
    AdmissionStepOver =>
        \A a, b \in Ids :
            (/\ entry_time[a] # -1
             /\ SpeciesOf(b) = SpeciesOf(a)
             /\ AnimalOf(b).arrival_time <= entry_time[a])
                => EnteredBy(b, entry_time[a])

\* C21, amended: the same for every animal of the same species that had arrived
\* when the tick of the admission began, at T - sign_change_latency or later.
C21_ArrivedAtTickEnterTogether ==
    AdmissionStepOver =>
        \A a, b \in Ids :
            (/\ entry_time[a] # -1
             /\ SpeciesOf(b) = SpeciesOf(a)
             /\ AnimalOf(b).arrival_time
                    <= entry_time[a] - self.sign_change_latency)
                => EnteredBy(b, entry_time[a])

\* two animals of one species admitted in the same step, one of which had
\* waited since an earlier tick
C21_Witness ==
    /\ AdmissionStepOver
    /\ \E a, b \in Ids :
          /\ a # b
          /\ SpeciesOf(a) = SpeciesOf(b)
          /\ entry_time[a] # -1
          /\ entry_time[a] = entry_time[b]
          /\ AnimalOf(b).arrival_time < AnimalOf(a).arrival_time

\* C27: for every workload, latency and initial sign, simulate() under FIFO
\* and under the priority policy return the same timeline, record for record,
\* and the same total_sign_changes.
OtherPolicyRunReturned ==
    /\ pc = "done"
    /\ first_result.returned

C27_PoliciesAgree ==
    OtherPolicyRunReturned =>
        /\ result.timeline = first_result.timeline
        /\ result.total_sign_changes = first_result.total_sign_changes

\* both policies have returned on a workload of two species in which an
\* animal waited for the room
C27_Witness ==
    /\ OtherPolicyRunReturned
    /\ self.queue_policy = "PRIORITY"
    /\ \E i, j \in 1..Len(result.timeline) :
          /\ result.timeline[i].species # result.timeline[j].species
          /\ result.timeline[j].wait_time > 0

\* C28: when the admission step of a tick is over, a non-empty waiting_queue
\* implies a non-empty room: time never advances with an empty room and an
\* animal waiting.
C28_RoomBusyWhileWaiting ==
    pc = "advance" => (Len(waiting_queue) > 0 => Len(animals_in_room) > 0)

\* the admission step has ended with an animal in the room and another one
\* refused
C28_Witness ==
    /\ pc = "advance"
    /\ Len(waiting_queue) > 0
    /\ Len(animals_in_room) > 0

\* C29: a second simulate() call on the same simulator returns the same
\* timeline and metrics as the first call.
C29_SecondCallIdentical ==
    (pc = "done" /\ first_result.returned) => result = first_result

(* =================== properties of programadores.py ==================== *)
\* the programmer has passed the test of line 44 and has not yet cleared
\* compiler_in_use
HoldsCompiler(p) ==
    prog_pc[p] \in {"take_compiler", "take_db", "compile", "leave",
                    "free_compiler"}

\* the programmer is between passing the test and the end of its release
HoldsResources(p) == HoldsCompiler(p) \/ prog_pc[p] \in {"free_db", "notify"}

\* C22: at most one programmer is between acquiring and releasing the
\* compiler, and no two programmers pass the test of line 44 on the same free
\* compiler.
C22_CompilerMutex ==
    /\ Cardinality({ p \in Programmers : HoldsResources(p) }) <= 1
    /\ compiler_in_use =>
          \E p \in Programmers :
              prog_pc[p] \in {"take_db", "compile", "leave", "free_compiler"}

\* one programmer compiles, one is in wait() and one is testing under the lock
C22_Witness ==
    \E p, q, r \in Programmers :
        /\ prog_pc[p] = "compile"
        /\ prog_pc[q] = "wait" /\ q \in waiters
        /\ prog_pc[r] = "test" /\ lock_holder = r

\* C23: never is every programmer blocked in wait() while the compiler and a
\* DB slot are free; a thread left in the wait queue always has a programmer
\* ahead of it that will call notify_all; and whenever a programmer waits for
\* the resources, some programmer eventually acquires them.
StuckInWait(p) == prog_pc[p] = "wait" /\ p \in waiters

ResourcesFree == ~ compiler_in_use /\ db_users < MAX_DB_USERS

NoLostWakeUp ==
    /\ ~ (ResourcesFree /\ \A p \in Programmers : StuckInWait(p))
    /\ (\E p \in Programmers : StuckInWait(p))
          => \E q \in Programmers : HoldsResources(q)
    /\ lock_holder \in Programmers
          => ENABLED programmer_life(lock_holder)

AwaitingResources(p) == prog_pc[p] \in {"enter", "test", "wait"}

TogetherIn(compiler, db) == db = (IF compiler THEN 1 ELSE 0)

LockJustTaken ==
    \/ lock_holder = NoThread
    \/ lock_holder = MainThread
    \/ lock_holder \in Programmers /\ prog_pc[lock_holder] = "test"

C30_AcquiredTogether ==
    /\ TogetherIn(displayed.compiler_in_use, displayed.db_users)
    /\ LockJustTaken => TogetherIn(compiler_in_use, db_users)
    /\ db_users \in 0..MAX_DB_USERS
    /\ db_users # MAX_DB_USERS

\* display_status has read a busy compiler and one connection, and holds the
\* lock again after the release
C30_Witness ==
    /\ displayed.compiler_in_use
    /\ displayed.db_users = 1
    /\ lock_holder = MainThread
    /\ ~ compiler_in_use

\* C31: every programmer that is in the phase 'Aguardando recursos' (between
\* line 36 and the end of the loop of lines 44-45) eventually compiles.
C31_NoStarvation ==
    \A p \in Programmers :
        AwaitingResources(p) ~> (prog_pc[p] = "compile")

(* ==================== properties of escalonamento.py =================== *)
SlicesOf(tl, pid) == { i \in 1..Len(tl) : tl[i].pid = pid }

SlicesInOrder(tl) ==
    \A i \in 1..(Len(tl) - 1) : tl[i].end <= tl[i + 1].start

\* C24: in simulate_sjf the chosen process has the least burst_time among the
\* processes with arrival_time <= current_time that are not completed; each
\* process is dispatched once, in one slice of length burst_time that starts
\* at or after its arrival; slices never overlap.
ChosenIsShortest ==
    sched_pc = "SJF_run" =>
        /\ proc \in Pids \ completed
        /\ ProcOf(proc).arrival_time <= sched_time
        /\ \A pid \in Pids \ completed :
              ProcOf(pid).arrival_time <= sched_time
                  => ProcOf(proc).burst_time <= ProcOf(pid).burst_time

OneSlicePerProcess ==
    /\ \A pid \in Pids :
          /\ Cardinality(SlicesOf(sched_timeline, pid)) <= 1
          /\ sched_pc \in {"SJF", "return", "done"} =>
                (pid \in completed
                     <=> Cardinality(SlicesOf(sched_timeline, pid)) = 1)
    /\ \A i \in 1..Len(sched_timeline) :
          LET sl == sched_timeline[i]
          IN  /\ sl.end - sl.start = ProcOf(sl.pid).burst_time
              /\ sl.start >= ProcOf(sl.pid).arrival_time
    /\ sched_pc = "done" => completed = Pids

C24_SjfDispatch ==
    (scheduler.algorithm = "SJF" /\ sched_pc # "new") =>
        /\ ChosenIsShortest
        /\ OneSlicePerProcess
        /\ SlicesInOrder(sched_timeline)

\* simulate_sjf has chosen a process that is not the first of the available
\* ones, after a context switch
C24_Witness ==
    /\ scheduler.algorithm = "SJF"
    /\ sched_pc = "SJF_run"
    /\ Len(sched_timeline) >= 1
    /\ LET available == Available(processes, sched_time, completed)
       IN  Len(available) >= 2 /\ proc # Head(available)

\* C25: simulate_rr terminates; every slice has length min(quantum,
\* remaining_time), in 1..quantum; the slices of a process sum to its
\* burst_time; slices do not overlap and none starts before the arrival of
\* its process.
SliceLengths(tl, pid) ==
    SumOver([i \in 1..Len(tl) |->
                [d |-> IF tl[i].pid = pid THEN tl[i].end - tl[i].start ELSE 0]],
            "d")

RrSliceRule ==
    (scheduler.algorithm = "RR"
        /\ Len(sched_timeline') = Len(sched_timeline) + 1) =>
        LET sl == sched_timeline'[Len(sched_timeline')]
            length == sl.end - sl.start
        IN  /\ length = Min(scheduler.quantum, remaining_time[sl.pid])
            /\ length \in 1..scheduler.quantum

RrSlices ==
    (scheduler.algorithm = "RR" /\ sched_pc # "new") =>
        /\ SlicesInOrder(sched_timeline)
        /\ \A i \in 1..Len(sched_timeline) :
              sched_timeline[i].start
                  >= ProcOf(sched_timeline[i].pid).arrival_time
        /\ \A pid \in Pids :
              SliceLengths(sched_timeline, pid)
                  = ProcOf(pid).burst_time - remaining_time[pid]
        /\ sched_pc = "done" => \A pid \in Pids : remaining_time[pid] = 0

C25_RoundRobinSlices ==
    /\ [][RrSliceRule]_vars
    /\ [] RrSlices
    /\ <>(sched_pc = "done")

\* simulate_rr has returned a timeline in which a process ran, was preempted
\* by another and ran again for less than a quantum
C25_Witness ==
    /\ scheduler.algorithm = "RR"
    /\ sched_pc = "done"
    /\ \E i, j, k \in 1..Len(sched_timeline) :
          /\ i < j /\ j < k
          /\ sched_timeline[i].pid = sched_timeline[k].pid
          /\ sched_timeline[j].pid # sched_timeline[i].pid
          /\ sched_timeline[k].end - sched_timeline[k].start
                 < scheduler.quantum

\* C26: in the three methods the response time accumulated for a process is
\* the start of its first slice minus its arrival_time, for every
\* context_switch_cost >= 0.
FirstStart(tl, pid) ==
    tl[CHOOSE i \in SlicesOf(tl, pid) : \A j \in SlicesOf(tl, pid) : i <= j].start

C26_ResponseAtFirstSlice ==
    (sched_pc = "done" /\ sched_result.returned) =>
        sched_result.response_sum
            = SumOver([i \in 1..Len(scheduler.processes) |->
                  [d |-> FirstStart(sched_result.timeline,
                                    scheduler.processes[i].pid)
                           - scheduler.processes[i].arrival_time]], "d")

====
